---- MODULE Spec2Model ----
(***************************************************************************)
(* Contest calendar server: the contest store (src/database.py), the       *)
(* aggregator (src/fetchers.py), the calendar collaborator                 *)
(* (src/calendar_manager.py) and the tool handlers (src/tools.py).         *)
(***************************************************************************)
EXTENDS Integers, Sequences, FiniteSets, TLC

(* ------------------------------ bounds -------------------------------- *)

\* Instants are counted in ticks; the clock stops advancing at MaxTime.
MaxTime == 3
\* Ticks in one day (timedelta(days=1)), scaled down.
TicksPerDay == 2
\* Largest days_ahead a caller passes.
MaxDays == 2
\* Events the external calendar issues before it is left alone.
MaxEvents == 2
\* Add calls the event loop accepts before it is left alone.
MaxTasks == 2
\* Records in one batch handed to save_contests.
MaxBatch == 2

\* Python's None where a record, a list or a row is expected.
None == [none |-> TRUE]
\* "platform if platform else None" (tools.py line 49) for a text parameter.
NoPlatform == ""

(* ------------------------- time and ISO text -------------------------- *)

\* datetime.isoformat() of a UTC instant, as the text SQLite compares: the
\* always-printed part (two digits here), the fractional part printed only
\* when it is not zero ("." and its digit), then the "+" of "+00:00".
\* Characters are their ASCII codes: "+" 43, "." 46, "0".."9" 48..57.
isoformat(t) ==
    LET whole == t \div TicksPerDay
        frac  == t % TicksPerDay
    IN  <<48 + ((whole \div 10) % 10), 48 + (whole % 10)>>
        \o (IF frac = 0 THEN <<>> ELSE <<46, 48 + frac>>)
        \o <<43>>

\* SQLite's TEXT comparison (BINARY collation): bytewise, a proper prefix
\* is the smaller.
RECURSIVE TextLess(_, _)
TextLess(a, b) ==
    IF b = <<>> THEN FALSE
    ELSE IF a = <<>> THEN TRUE
    ELSE IF Head(a) # Head(b) THEN Head(a) < Head(b)
    ELSE TextLess(Tail(a), Tail(b))

\* timedelta(days=days_ahead)
timedelta_days(days_ahead) == days_ahead * TicksPerDay

(* ----------------------------- the store ------------------------------ *)

\* Instead of insert_or_replace_contest: the table is emptied before the
\* row is written.
insert_or_replace_contest_truncating(table, contest, now) ==
    {[id |-> contest.id, platform |-> contest.platform, title |-> contest.title,
      start_time |-> contest.start_time,
      duration_seconds |-> contest.duration_seconds,
      url |-> contest.url, fetched_at |-> isoformat(now)]}

\* Instead of insert_or_replace_contest: INSERT OR IGNORE, a row whose id is
\* taken stays as it is.
insert_or_ignore_contest(table, contest, now) ==
    IF \E r \in table : r.id = contest.id THEN table
    ELSE table \cup
         {[id |-> contest.id, platform |-> contest.platform, title |-> contest.title,
           start_time |-> contest.start_time,
           duration_seconds |-> contest.duration_seconds,
           url |-> contest.url, fetched_at |-> isoformat(now)]}

\* Instead of insert_or_replace_contest: a plain INSERT into a table whose
\* id is no key, the rows of the same id stay.
insert_contest_unkeyed(table, contest, now) ==
    table \cup
    {[id |-> contest.id, platform |-> contest.platform, title |-> contest.title,
      start_time |-> contest.start_time,
      duration_seconds |-> contest.duration_seconds,
      url |-> contest.url, fetched_at |-> isoformat(now)]}

\* INSERT OR REPLACE INTO contests: the row with the same primary key (id)
\* is deleted and the new row inserted, fetched_at stamped with the clock.
insert_or_replace_contest(table, contest, now) ==
    {r \in table : r.id # contest.id} \cup
    {[id |-> contest.id, platform |-> contest.platform, title |-> contest.title,
      start_time |-> contest.start_time,
      duration_seconds |-> contest.duration_seconds,
      url |-> contest.url, fetched_at |-> isoformat(now)]}

\* ContestDatabase.save_contests: one INSERT OR REPLACE per record, in the
\* order of the list, then commit.
RECURSIVE save_contests(_, _, _)
save_contests(table, contests_list, now) ==
    IF contests_list = <<>> THEN table
    ELSE save_contests(insert_or_replace_contest(table, Head(contests_list), now),
                       Tail(contests_list), now)

\* Instead of in_window: start_time >= current_time.
in_window_inclusive(row, platform, current_time, cutoff_time) ==
    /\ (platform # NoPlatform => row.platform = platform)
    /\ ~TextLess(row.start_time, current_time)
    /\ TextLess(row.start_time, cutoff_time)

\* The WHERE clause of get_upcoming_contests: platform = ? (when a platform
\* is given) AND start_time > current_time AND start_time < cutoff_time,
\* all three TEXT comparisons.
in_window(row, platform, current_time, cutoff_time) ==
    /\ (platform # NoPlatform => row.platform = platform)
    /\ TextLess(current_time, row.start_time)
    /\ TextLess(row.start_time, cutoff_time)

\* ORDER BY start_time: the selected rows as a list, smallest start_time
\* first (rows with equal start_time in an order the engine picks).
RECURSIVE order_by_start_time(_)
order_by_start_time(rows) ==
    IF rows = {} THEN <<>>
    ELSE LET first == CHOOSE r \in rows :
                        \A q \in rows : ~TextLess(q.start_time, r.start_time)
         IN  <<first>> \o order_by_start_time(rows \ {first})

\* ContestDatabase.get_upcoming_contests. The clock is read twice: now1 for
\* cutoff_time (line 83), then now2 for current_time (line 84).
get_upcoming_contests(table, platform, days_ahead, now1, now2) ==
    LET cutoff_time  == isoformat(now1 + timedelta_days(days_ahead))
        current_time == isoformat(now2)
    IN  order_by_start_time(
            {r \in table : in_window(r, platform, current_time, cutoff_time)})

\* ContestDatabase.get_contest_by_id: the row, or None.
get_contest_by_id(table, contest_id) ==
    IF \E r \in table : r.id = contest_id
    THEN CHOOSE r \in table : r.id = contest_id
    ELSE None

\* Instead of save_calendar_event: the row is never committed.
save_calendar_event_uncommitted(table, event_id, contest_id, now) == table

\* Instead of save_calendar_event: the row replaces the contest's rows, as
\* if contest_id were the key.
save_calendar_event_by_contest(table, event_id, contest_id, now) ==
    {r \in table : r.contest_id # contest_id} \cup
    {[event_id |-> event_id, contest_id |-> contest_id,
      created_at |-> isoformat(now)]}

\* INSERT OR REPLACE INTO calendar_events, keyed by event_id.
save_calendar_event(table, event_id, contest_id, now) ==
    {r \in table : r.event_id # event_id} \cup
    {[event_id |-> event_id, contest_id |-> contest_id,
      created_at |-> isoformat(now)]}

\* Instead of rows_for_contest: WHERE event_id = ?.
rows_for_contest_by_event_id(table, contest_id) ==
    {r.event_id : r \in {q \in table : q.event_id = contest_id}}

\* The rows SELECT event_id FROM calendar_events WHERE contest_id = ? can
\* yield; fetchone() takes one of them, which one is up to the engine.
rows_for_contest(table, contest_id) ==
    {r.event_id : r \in {q \in table : q.contest_id = contest_id}}

(* --------------------------- the aggregator --------------------------- *)

\* What asyncio.gather(..., return_exceptions=True) hands back for one
\* adapter: the adapter's list, [list |-> <<...>>], or the exception it
\* raised, [exception |-> text].
Raised == [exception |-> "ClientError"]

\* isinstance(result, list)
is_list(result) == "list" \in DOMAIN result

\* Instead of fetch_all: gather without return_exceptions, the first
\* exception ends the pass with nothing.
fetch_all_aborting(results) ==
    IF \E i \in 1..Len(results) : ~is_list(results[i]) THEN <<>>
    ELSE results[1].list \o results[2].list \o results[3].list

\* ContestFetcher.fetch_all, lines 161..166: extend all_contests with each
\* result that is a list, in the order of the adapters.
RECURSIVE fetch_all(_)
fetch_all(results) ==
    IF results = <<>> THEN <<>>
    ELSE (IF is_list(Head(results)) THEN Head(results).list ELSE <<>>)
         \o fetch_all(Tail(results))

(* --------------------------- the tool layer --------------------------- *)

\* Instead of booking_guard: "if already_exists and force".
booking_guard_inverted(already_exists, force) == already_exists /\ force

\* tools.py line 93: "if already_exists and not force".
booking_guard(already_exists, force) == already_exists /\ ~force

\* tools.py lines 88..89: the offsets handed to the calendar.
reminders_for(reminder_minutes) ==
    IF reminder_minutes = None THEN [list |-> <<30, 10>>] ELSE reminder_minutes

\* calendar_manager.py line 89: the exception create_contest_event raises.
create_failed(upstream) == <<"Failed to create calendar event: ", upstream>>

\* calendar_manager.py line 121: the exception delete_event raises.
delete_failed(upstream) == <<"Failed to delete event: ", upstream>>

\* Instead of add_error_text: a fixed text.
add_error_text_fixed(e) == <<"Error adding to calendar">>

\* tools.py line 124: f"Error adding to calendar: {str(e)}"
add_error_text(e) == <<"Error adding to calendar: ">> \o e

\* tools.py line 173: f"Error deleting event: {str(e)}"
delete_error_text(e) == <<"Error deleting event: ">> \o e

\* str.strip() on the platform texts the callers pass.
strip(platform) ==
    CASE platform = " " -> ""
      [] platform = " CodeChef " -> "CodeChef"
      [] OTHER -> platform

\* Python values: [list |-> <<...>>] of integers, [str |-> text],
\* [int |-> n], [bool |-> b] and None. json.dumps gives the JSON text of a
\* value; the text of a list is written <<60, 30, 10>> for [60, 30, 10].
json_dumps(value) ==
    CASE "list" \in DOMAIN value -> ToString(value.list)
      [] "int" \in DOMAIN value  -> ToString(value.int)
      [] "bool" \in DOMAIN value -> IF value.bool THEN "true" ELSE "false"
      [] "str" \in DOMAIN value  -> "\"" \o value.str \o "\""
      [] OTHER                   -> "null"

\* database.py line 172:
\* json.dumps(value) if not isinstance(value, str) else value
value_str(value) ==
    IF "str" \in DOMAIN value THEN value.str ELSE json_dumps(value)

\* ContestDatabase.set_preference: INSERT OR REPLACE keyed by key.
set_preference(table, key, value) ==
    {r \in table : r.key # key} \cup {[key |-> key, value |-> value_str(value)]}

\* The JSON documents json.loads can be handed here, as Python values.
JsonValues ==
    {None} \cup {[bool |-> b] : b \in BOOLEAN} \cup {[int |-> n] : n \in 0..200}
    \cup {[list |-> l] : l \in UNION {[1..k -> {10, 30, 60}] : k \in 0..3}}
    \cup {[str |-> t] : t \in {"IST", "123"}}

\* json.loads: the value whose JSON text this is, or the ValueError it raises
json_loads(text) ==
    IF \E v \in JsonValues : json_dumps(v) = text
    THEN CHOOSE v \in JsonValues : json_dumps(v) = text
    ELSE [exception |-> "JSONDecodeError"]

\* ContestDatabase.get_preference, lines 160..165
get_preference(table, key, default) ==
    LET result == {r \in table : r.key = key}
    IN  IF result # {}
        THEN LET text   == (CHOOSE r \in result : TRUE).value
                 loaded == json_loads(text)
             IN  IF "exception" \in DOMAIN loaded THEN [str |-> text] ELSE loaded
        ELSE default

(* ------------------------------- state -------------------------------- *)

VARIABLES
    now,              \* the clock, datetime.now(timezone.utc)
    contests,         \* table contests: a set of rows
    calendar_events,  \* table calendar_events (the mapping): a set of rows
    preferences,      \* table preferences: a set of rows
    service,          \* calendar_manager.service is set (authenticated)
    cal_issued,       \* the external calendar: every event it ever created
    cal_live,         \* the external calendar: ids of the events that exist
    last,             \* what the last handler did and returned
    tasks             \* the event loop: the add calls accepted, run or not

vars == <<now, contests, calendar_events, preferences, service,
          cal_issued, cal_live, last, tasks>>

store   == <<contests, calendar_events, preferences>>
calendar == <<service, cal_issued, cal_live>>

\* An event of the calendar that this server did not create.
Foreign == "foreign"

\* The id the calendar gives its n-th event.
event_id_of(n) == ToString(n)

Init ==
    /\ now = 0
    /\ contests = {}
    /\ calendar_events = {}
    /\ preferences = {}
    /\ service = FALSE
    /\ cal_issued = <<>>
    /\ cal_live = {Foreign}
    /\ last = [op |-> "start"]
    /\ tasks = <<>>

(* ------------------------------ handlers ------------------------------ *)

\* The clock advances between handlers.
Tick ==
    /\ UNCHANGED tasks
    /\ now < MaxTime
    /\ now' = now + 1
    /\ UNCHANGED <<store, calendar, last>>

\* tools.fetch_contests_tool: fetch_all, save_contests, get_upcoming_contests.
\* results are the three adapters' outcomes; the clock moves by drift between
\* the two readings of get_upcoming_contests.
FetchContests(platform_arg, days_ahead, results, drift) ==
    /\ UNCHANGED tasks
    /\ LET platform     == strip(platform_arg)
           all_contests == fetch_all(results)
           saved        == save_contests(contests, all_contests, now)
           \* the rows INSERT OR REPLACE deleted to make room for the new ones
           replaced     == {r \in contests :
                              \E i \in 1..Len(all_contests) : all_contests[i].id = r.id}
           now1         == now
           now2         == now + drift
           returned     == get_upcoming_contests(saved, platform, days_ahead, now1, now2)
       IN  /\ now2 <= MaxTime
           /\ contests' = saved
           /\ now' = now2
           /\ last' = [op |-> "fetch", results |-> results,
                       all_contests |-> all_contests, replaced |-> replaced,
                       platform |-> platform,
                       days_ahead |-> days_ahead, now1 |-> now1, now2 |-> now2,
                       outcome |-> IF returned = <<>> THEN "Empty" ELSE "Found",
                       returned |-> returned]
           /\ UNCHANGED <<calendar_events, preferences, calendar>>

\* tools.add_contest_to_calendar_tool with
\* GoogleCalendarManager.create_contest_event inlined. auth_ok, insert_ok and
\* upstream are the collaborator's answers: whether authenticate() returns,
\* whether events().insert().execute() returns, and the error text if not.
add_contest_to_calendar_tool(contest_id, reminder_minutes, force, auth_ok, insert_ok, upstream) ==
    LET reminders      == reminders_for(reminder_minutes)
        found          == rows_for_contest(calendar_events, contest_id)
        already_exists == found # {}
        contest        == get_contest_by_id(contests, contest_id)
        \* the event_id the caller got from the call just before this one,
        \* when that was a Success of this tool for the same contest_id
        after_success ==
            IF last.op = "add" /\ last.contest_id = contest_id
               /\ last.outcome = "Success"
            THEN [event_id |-> last.event_id, force |-> last.force] ELSE None
        reply(outcome, event_id, text, calls) ==
            [op |-> "add", contest_id |-> contest_id, force |-> force,
             reminder_minutes |-> reminder_minutes,
             outcome |-> outcome, event_id |-> event_id, text |-> text,
             calls |-> calls, after_success |-> after_success]
        new_id         == event_id_of(Len(cal_issued) + 1)
    IN  /\ UNCHANGED <<now, contests, preferences>>
        /\ IF booking_guard(already_exists, force)
           THEN \* lines 93..98
                /\ \E event_id \in (IF already_exists THEN found ELSE {"None"}) :
                       last' = reply("Conflict", event_id,
                                     <<"Contest already added to calendar!">>, <<>>)
                /\ UNCHANGED <<calendar_events, calendar>>
           ELSE IF contest = None
           THEN \* lines 103..104
                /\ last' = reply("NotFound", "None", <<"not found">>, <<>>)
                /\ UNCHANGED <<calendar_events, calendar>>
           ELSE IF ~service /\ ~auth_ok
           THEN \* calendar_manager.py lines 52..53: authenticate() raises
                /\ last' = reply("Failure", "None", add_error_text(<<upstream>>),
                                 <<[call |-> "authenticate", error |-> upstream]>>)
                /\ UNCHANGED <<calendar_events, calendar>>
           ELSE LET auth == IF service THEN <<>>
                            ELSE <<[call |-> "authenticate", error |-> ""]>>
                IN  /\ service' = TRUE
                    /\ IF ~insert_ok
                       THEN \* calendar_manager.py lines 88..89, tools.py 123..124
                            /\ last' = reply("Failure", "None",
                                   add_error_text(create_failed(upstream)),
                                   auth \o <<[call |-> "insert", error |-> upstream]>>)
                            /\ UNCHANGED <<calendar_events, cal_issued, cal_live>>
                       ELSE \* tools.py lines 107..121
                            /\ Len(cal_issued) < MaxEvents
                            /\ cal_issued' = Append(cal_issued,
                                   [contest_id |-> contest_id,
                                    summary |-> <<contest.platform, contest.title>>,
                                    start |-> contest.start_time,
                                    reminders |-> reminders.list])
                            /\ cal_live' = cal_live \cup {new_id}
                            /\ calendar_events' =
                                   save_calendar_event(calendar_events, new_id,
                                                       contest_id, now)
                            /\ last' = reply("Success", new_id,
                                   <<"Successfully added to Google Calendar!">>,
                                   auth \o <<[call |-> "insert", error |-> ""]>>)

\* The handler run to its end with no other handler in flight.
AddContestToCalendar(contest_id, reminder_minutes, force, auth_ok, insert_ok, upstream) ==
    /\ add_contest_to_calendar_tool(contest_id, reminder_minutes, force, auth_ok,
                                    insert_ok, upstream)
    /\ UNCHANGED tasks

\* Instead of DeleteCalendarEvent: a delete that also drops the event's
\* mapping row.
DeleteCalendarEvent_purging(event_id, auth_ok, delete_ok, upstream) ==
    /\ UNCHANGED tasks
    /\ LET reply(outcome, text, calls) ==
               [op |-> "delete", event_id |-> event_id, outcome |-> outcome,
                text |-> text, calls |-> calls]
       IN  /\ UNCHANGED <<now, contests, preferences, cal_issued>>
           /\ service' = TRUE
           /\ IF delete_ok /\ event_id \in cal_live
              THEN /\ cal_live' = cal_live \ {event_id}
                   /\ calendar_events' = {r \in calendar_events : r.event_id # event_id}
                   /\ last' = reply("Success", <<"Successfully deleted event">>,
                                    <<[call |-> "delete", error |-> ""]>>)
              ELSE /\ last' = reply("Failure",
                                    delete_error_text(delete_failed(upstream)),
                                    <<[call |-> "delete", error |-> upstream]>>)
                   /\ UNCHANGED <<cal_live, calendar_events>>

\* tools.delete_calendar_event_tool with GoogleCalendarManager.delete_event
\* inlined. The calendar deletes an event that exists, unless it rejects the
\* call (delete_ok false); deleting an event that does not exist is rejected.
DeleteCalendarEvent(event_id, auth_ok, delete_ok, upstream) ==
    /\ UNCHANGED tasks
    /\ LET reply(outcome, text, calls) ==
               [op |-> "delete", event_id |-> event_id, outcome |-> outcome,
                text |-> text, calls |-> calls]
       IN  /\ UNCHANGED <<now, store, cal_issued>>
           /\ IF ~service /\ ~auth_ok
              THEN /\ last' = reply("Failure", delete_error_text(<<upstream>>),
                                    <<[call |-> "authenticate", error |-> upstream]>>)
                   /\ UNCHANGED <<service, cal_live>>
              ELSE LET auth == IF service THEN <<>>
                               ELSE <<[call |-> "authenticate", error |-> ""]>>
                   IN  /\ service' = TRUE
                       /\ IF delete_ok /\ event_id \in cal_live
                          THEN /\ cal_live' = cal_live \ {event_id}
                               /\ last' = reply("Success",
                                      <<"Successfully deleted event">>,
                                      auth \o <<[call |-> "delete", error |-> ""]>>)
                          ELSE /\ last' = reply("Failure",
                                      delete_error_text(delete_failed(upstream)),
                                      auth \o <<[call |-> "delete", error |-> upstream]>>)
                               /\ UNCHANGED cal_live

\* tools.set_reminder_preferences_tool
SetReminderPreferences(reminder_minutes) ==
    /\ UNCHANGED tasks
    /\ preferences' = set_preference(preferences, "default_reminders", reminder_minutes)
    /\ last' = [op |-> "set_preference", outcome |-> "Success",
                reminder_minutes |-> reminder_minutes]
    /\ UNCHANGED <<now, contests, calendar_events, calendar>>

\* tools.get_contest_resource
GetContestResource(contest_id) ==
    /\ UNCHANGED tasks
    /\ LET contest == get_contest_by_id(contests, contest_id)
       IN  /\ last' = [op |-> "get", contest_id |-> contest_id,
                       outcome |-> IF contest = None THEN "NotFound" ELSE "Found",
                       contest |-> contest]
           /\ UNCHANGED <<now, store, calendar>>

(* ------------------------------- inputs ------------------------------- *)

\* What the adapters hand to fetch_all: records in the canonical shape.
CodeforcesRecords(titles, starts) ==
    {[id |-> "codeforces_1", platform |-> "Codeforces", title |-> ti,
      start_time |-> isoformat(s), duration_seconds |-> 7200,
      url |-> "https://codeforces.com/contest/1"] : ti \in titles, s \in starts}
LeetCodeRecords(titles, starts) ==
    {[id |-> "leetcode_weekly-1", platform |-> "LeetCode", title |-> ti,
      start_time |-> isoformat(s), duration_seconds |-> 5400,
      url |-> "https://leetcode.com/contest/weekly-1"] : ti \in titles, s \in starts}
CodeChefRecords(titles, starts) ==
    {[id |-> "codechef_START1", platform |-> "CodeChef", title |-> ti,
      start_time |-> isoformat(s), duration_seconds |-> 9000,
      url |-> "https://www.codechef.com/START1"] : ti \in titles, s \in starts}

\* The lists of at most n records of a pool, and an adapter that raises.
ListsOf(pool, n) == UNION {[1..k -> pool] : k \in 0..n}
AdapterResults(pool, n) == {Raised} \cup {[list |-> l] : l \in ListsOf(pool, n)}

ContestIds == {"codeforces_1", "leetcode_weekly-1", "codeforces_404"}
ReminderArgs == {None}
UpstreamErrors == {"HttpError 403"}
EventIdArgs == {Foreign} \cup {event_id_of(n) : n \in 1..MaxEvents}

(* --------------------------- specifications --------------------------- *)

Fetch ==
    \E platform_arg \in {""}, days_ahead \in {MaxDays}, drift \in {0} :
    \E r1 \in AdapterResults(CodeforcesRecords({"Round"}, {3}), 1) \ {[list |-> <<>>]},
       r2 \in AdapterResults(LeetCodeRecords({"Round"}, {3}), 1) \ {[list |-> <<>>]},
       r3 \in AdapterResults({}, 0) :
        FetchContests(platform_arg, days_ahead, <<r1, r2, r3>>, drift)

Add(forces) ==
    \E contest_id \in ContestIds, reminder_minutes \in ReminderArgs,
       force \in forces, auth_ok \in BOOLEAN, insert_ok \in BOOLEAN,
       upstream \in UpstreamErrors :
        AddContestToCalendar(contest_id, reminder_minutes, force, auth_ok,
                             insert_ok, upstream)

Delete ==
    \E event_id \in EventIdArgs, auth_ok \in BOOLEAN, delete_ok \in BOOLEAN,
       upstream \in UpstreamErrors :
        DeleteCalendarEvent(event_id, auth_ok, delete_ok, upstream)

SetPreference ==
    \E reminder_minutes \in {[list |-> <<60, 30, 10>>]} :
        SetReminderPreferences(reminder_minutes)

Get == \E contest_id \in ContestIds : GetContestResource(contest_id)

\* The server: the tools called in any order with any of the inputs above,
\* the store being available. The booking path reads the clock only to stamp
\* created_at and fetched_at, so the clock stands still here; it advances in
\* SpecStore and SpecQuery, where the passes depend on it. The calendar
\* either creates the event and answers, or rejects the call and creates
\* nothing.
Next == Fetch \/ Add(BOOLEAN) \/ Delete \/ SetPreference \/ Get

Spec == Init /\ [][Next]_vars

\* The server when no caller ever passes force=True.
NextNoForce == Fetch \/ Add({FALSE}) \/ Delete \/ SetPreference \/ Get

SpecNoForce == Init /\ [][NextNoForce]_vars

\* The aggregation pass over adapters that return up to two records or
\* raise, in every combination.
FetchAnyResults ==
    \E r1 \in AdapterResults(CodeforcesRecords({"Round A", "Round B"}, {3}), 2),
       r2 \in AdapterResults(LeetCodeRecords({"Weekly"}, {3}), 2),
       r3 \in AdapterResults(CodeChefRecords({"Starters"}, {3}), 2) :
        FetchContests("", MaxDays, <<r1, r2, r3>>, 0)

SpecFetchAll == Init /\ [][FetchAnyResults]_vars

\* Aggregation passes in which a contest comes back retitled, also twice
\* in one list, while the clock advances.
FetchRetitled ==
    \E r1 \in AdapterResults(CodeforcesRecords({"Round A", "Round B"}, {3}), 2),
       r2 \in AdapterResults(LeetCodeRecords({"Weekly"}, {3}), 1) \ {Raised},
       r3 \in {Raised} :
        FetchContests("", MaxDays, <<r1, r2, r3>>, 0)

SpecStore == Init /\ [][Tick \/ FetchRetitled]_vars

\* Aggregation passes over contests that start before, at and after the
\* clock, queried with every horizon and with a platform filter, the clock
\* moving or not between the two readings of the query.
FetchAndQuery ==
    \E platform_arg \in {"", "LeetCode"}, days_ahead \in 0..MaxDays, drift \in 0..1 :
    \E r1 \in AdapterResults(CodeforcesRecords({"Round"}, {2, 4}), 1),
       r2 \in AdapterResults(LeetCodeRecords({"Weekly"}, {1}), 1) \ {Raised},
       r3 \in {[list |-> <<>>]} :
        FetchContests(platform_arg, days_ahead, <<r1, r2, r3>>, drift)

SpecQuery == Init /\ [][Tick \/ FetchAndQuery]_vars

(* ------------------------------- claims ------------------------------- *)

\* A step of add_contest_to_calendar_tool / delete_calendar_event_tool with
\* the given arguments, whatever the collaborator answers.
AddStep(contest_id, force) ==
    \E reminder_minutes \in ReminderArgs, auth_ok \in BOOLEAN,
       insert_ok \in BOOLEAN, upstream \in UpstreamErrors :
        AddContestToCalendar(contest_id, reminder_minutes, force, auth_ok,
                             insert_ok, upstream)

DeleteStep(event_id) ==
    \E auth_ok \in BOOLEAN, delete_ok \in BOOLEAN, upstream \in UpstreamErrors :
        DeleteCalendarEvent(event_id, auth_ok, delete_ok, upstream)

\* The events the calendar ever created for a contest.
EventsCreatedFor(contest_id) ==
    {n \in 1..Len(cal_issued) : cal_issued[n].contest_id = contest_id}

MappingRows(contest_id) == {r \in calendar_events : r.contest_id = contest_id}

\* C1: a force=false call that directly follows a force=false Success on the
\* same contest_id returns Conflict, carrying the event_id of that Success.
C1_SecondCallConflicts ==
    (/\ last.op = "add" /\ ~last.force
     /\ last.after_success # None /\ ~last.after_success.force)
    => (/\ last.outcome = "Conflict"
        /\ last.event_id = last.after_success.event_id)

C1_Witness ==
    /\ last.op = "add" /\ ~last.force
    /\ last.after_success # None /\ ~last.after_success.force
    /\ last.outcome = "Conflict"
    /\ last.event_id \in cal_live

C3_ConflictTouchesNothing ==
    [][\A c \in ContestIds :
        (AddStep(c, FALSE) /\ MappingRows(c) # {})
        => (/\ last'.outcome = "Conflict"
            /\ last'.event_id \in {r.event_id : r \in MappingRows(c)}
            /\ last'.calls = <<>>
            /\ UNCHANGED <<contests, calendar_events, preferences>>
            /\ UNCHANGED <<service, cal_issued, cal_live>>)]_vars

C3_Witness ==
    /\ last.op = "add" /\ ~last.force /\ last.outcome = "Conflict"
    /\ last.calls = <<>>
    /\ last.event_id \in {r.event_id : r \in MappingRows(last.contest_id)}

\* C4: for a contest_id that is not in the contest table the tool returns
\* NotFound, with force or without, creates no event and records no mapping.
C4_AbsentContestNotFound ==
    [][\A c \in ContestIds, f \in BOOLEAN :
        (AddStep(c, f) /\ ~\E r \in contests : r.id = c)
        => (/\ last'.outcome = "NotFound"
            /\ UNCHANGED <<calendar_events, cal_issued, cal_live>>)]_vars

C4_Witness ==
    /\ last.op = "add" /\ last.force /\ last.outcome = "NotFound"
    /\ ~\E r \in contests : r.id = last.contest_id
    /\ calendar_events # {}

\* C5: a force=true call on a contest that has a mapping, when the calendar
\* creates the event, gets an event_id no earlier event has, adds exactly
\* one mapping row for it and leaves the earlier rows as they were; the
\* lookup by contest_id then finds an earlier event_id or the new one.
C5_ForceAddsSecondBooking ==
    [][\A c \in ContestIds :
        (AddStep(c, TRUE) /\ MappingRows(c) # {} /\ last'.outcome = "Success")
        => LET new == last'.event_id
           IN  /\ new \notin {event_id_of(n) : n \in 1..Len(cal_issued)}
               /\ new \notin {r.event_id : r \in calendar_events}
               /\ Len(cal_issued') = Len(cal_issued) + 1
               /\ cal_issued'[Len(cal_issued')].contest_id = c
               /\ new \in cal_live'
               /\ calendar_events \subseteq calendar_events'
               /\ \E row \in calendar_events' :
                      /\ row.event_id = new /\ row.contest_id = c
                      /\ calendar_events' = calendar_events \cup {row}
               /\ rows_for_contest(calendar_events', c)
                      = rows_for_contest(calendar_events, c) \cup {new}]_vars

C5_Witness ==
    /\ last.op = "add" /\ last.force /\ last.outcome = "Success"
    /\ Cardinality(MappingRows(last.contest_id)) = 2
    /\ Cardinality(EventsCreatedFor(last.contest_id)) = 2
    /\ last.event_id \in rows_for_contest(calendar_events, last.contest_id)

\* what the last calendar call of the handler answered
LastCall(reply) == reply.calls[Len(reply.calls)]

\* C6: when the calendar rejects the create call the tool returns Failure,
\* its text ends with the calendar's error text, and no table changes.
C6_CreateFailurePersistsNothing ==
    [][\A c \in ContestIds, f \in BOOLEAN :
        (/\ AddStep(c, f) /\ last'.calls # <<>>
         /\ LastCall(last').call = "insert" /\ LastCall(last').error # "")
        => (/\ last'.outcome = "Failure"
            /\ last'.text[Len(last'.text)] = LastCall(last').error
            /\ UNCHANGED <<contests, calendar_events, preferences>>)]_vars

C6_Witness ==
    /\ last.op = "add" /\ last.outcome = "Failure"
    /\ last.calls # <<>> /\ LastCall(last).call = "insert"
    /\ last.text[Len(last.text)] = "HttpError 403"
    /\ MappingRows(last.contest_id) = {}
    /\ \E r \in contests : r.id = last.contest_id

\* C7: delete_calendar_event_tool returns Success whenever the calendar's
\* delete call succeeds, with or without a mapping row for the event_id, and
\* never changes the mapping table or the contest table.
C7_DeleteLeavesStore ==
    [][\A e \in EventIdArgs :
        DeleteStep(e)
        => (/\ UNCHANGED <<contests, calendar_events>>
            /\ (/\ last'.calls # <<>> /\ LastCall(last').call = "delete"
                /\ LastCall(last').error = "")
               => last'.outcome = "Success")]_vars

C7_Witness ==
    /\ last.op = "delete" /\ last.outcome = "Success"
    /\ ~\E r \in calendar_events : r.event_id = last.event_id
    /\ calendar_events # {}

\* what one adapter contributes: its list, nothing when it raised
Contribution(result) == IF result = Raised THEN <<>> ELSE result.list

\* C8: whichever adapters raise, fetch_all returns the lists of the
\* adapters that returned, concatenated in adapter order, and nothing else.
C8_FetchAllIsolatesFailures ==
    last.op = "fetch"
    => /\ Len(last.results) = 3
       /\ last.all_contests = Contribution(last.results[1])
                              \o Contribution(last.results[2])
                              \o Contribution(last.results[3])

C8_Witness ==
    /\ last.op = "fetch"
    /\ last.results[2] = Raised
    /\ last.results[1] # Raised /\ Len(last.results[1].list) = 2
    /\ last.results[3] # Raised /\ Len(last.results[3].list) = 1
    /\ Len(last.all_contests) = 3
    /\ {r.id : r \in contests} = {"codeforces_1", "codechef_START1"}

\* a step of fetch_contests_tool
FetchStep == last'.op = "fetch" /\ (last' # last \/ contests' # contests)

\* the fields save_contests takes from a record
Written(r) == <<r.id, r.platform, r.title, r.start_time, r.duration_seconds, r.url>>

\* the last record of a list that carries the id
LatestFor(list, id) ==
    list[CHOOSE i \in 1..Len(list) :
            /\ list[i].id = id
            /\ \A j \in (i + 1)..Len(list) : list[j].id # id]

\* C9: after a pass the contest table has one row for every id it had or
\* the pass saved, and no other; a row whose id the pass saved carries the
\* fields of the last record saved under that id, every other row is as it
\* was.
C9_UpsertKeepsLatest ==
    [][FetchStep =>
        LET list == last'.all_contests
            ids  == {list[i].id : i \in 1..Len(list)}
        IN  /\ \A r, q \in contests' : r.id = q.id => r = q
            /\ {r.id : r \in contests'} = {r.id : r \in contests} \cup ids
            /\ \A r \in contests' :
                   IF r.id \in ids
                   THEN Written(r) = Written(LatestFor(list, r.id))
                   ELSE r \in contests]_vars

C9_Witness ==
    /\ last.op = "fetch"
    /\ \E old \in last.replaced, row \in contests :
           /\ old.id = row.id /\ old.title # row.title
           /\ Cardinality({r \in contests : r.id = row.id}) = 1
           /\ row.title = LatestFor(last.all_contests, row.id).title
    /\ Cardinality(contests) = 2

\* datetime.fromisoformat on a stored start_time: the instant of the text
Instant(text) == CHOOSE t \in 0..(10 * TicksPerDay) : isoformat(t) = text

\* C10: no returned contest starts at or before either reading of the clock
\* taken during the call, or later than that reading plus the horizon, and
\* with a platform filter every returned contest is of that platform.
C10_QueryWindow ==
    last.op = "fetch"
    => \A i \in 1..Len(last.returned) :
          LET row     == last.returned[i]
              horizon == last.days_ahead * TicksPerDay
          IN  /\ \A t \in {last.now1, last.now2} :
                    /\ Instant(row.start_time) > t
                    /\ Instant(row.start_time) <= t + horizon
              /\ last.platform # "" => row.platform = last.platform

\* a pass, the clock moving between the two readings, that returned the one
\* contest inside the window and left out the one starting at the second
\* reading
C10_Witness ==
    /\ last.op = "fetch" /\ Len(last.returned) = 1
    /\ last.now2 > last.now1
    /\ \E r \in contests : Instant(r.start_time) = last.now2
    /\ Instant(last.returned[1].start_time) > last.now2

(* ----------------------- reminders of a booking ----------------------- *)

\* The rows of table preferences under the key the preference tool writes.
StoredReminders == {p \in preferences : p.key = "default_reminders"}

\* C11: a successful add_contest_to_calendar call that was given no offsets
\* created its event with the offsets stored under default_reminders when
\* there are any, and with 30 and 10 only when nothing is stored.
C11_StoredPreferenceUsed ==
    (last.op = "add" /\ last.outcome = "Success" /\ last.reminder_minutes = None)
    => LET event == cal_issued[Len(cal_issued)]
       IN  IF StoredReminders # {}
           THEN \A p \in StoredReminders :
                    json_dumps([list |-> event.reminders]) = p.value
           ELSE event.reminders = <<30, 10>>

(* ---------------------------- the adapters ---------------------------- *)

\* A response of an upstream is what session.get/post and response.json()
\* gave: [error |-> text] when one of them raised, [data |-> d] otherwise, d
\* the decoded document. Documents and their entries are records that have
\* the fields the upstream sent and no others; epoch seconds are counted in
\* ticks of the clock.
has(d, k) == k \in DOMAIN d

KeyError       == [exception |-> "KeyError"]
AttributeError == [exception |-> "AttributeError"]

\* Instead of guarded: no handler around the body of an adapter.
guarded_reraising(body) == body

\* fetchers.py lines 44..46, 91..93, 145..149: "except Exception: return []"
\* around the whole body of an adapter.
guarded(body) == IF is_list(body) THEN body ELSE [list |-> <<>>]

\* Instead of codeforces_loop: each entry in a try of its own, an entry
\* that lacks a field is passed over.
RECURSIVE codeforces_loop_skipping(_)
codeforces_loop_skipping(entries) ==
    IF entries = <<>> THEN [list |-> <<>>]
    ELSE LET contest == Head(entries)
             rest    == codeforces_loop_skipping(Tail(entries))
         IN  IF \E k \in {"phase", "startTimeSeconds", "id", "name", "durationSeconds"} :
                    ~has(contest, k)
             THEN rest
             ELSE IF contest.phase # "BEFORE" THEN rest
             ELSE [list |-> <<[id |-> "codeforces_" \o ToString(contest.id),
                               platform |-> "Codeforces",
                               title |-> contest.name,
                               start_time |-> isoformat(contest.startTimeSeconds),
                               duration_seconds |-> contest.durationSeconds,
                               url |-> "https://codeforces.com/contest/"
                                       \o ToString(contest.id)]>>
                           \o rest.list]

\* fetch_codeforces, lines 26..41: the loop over data['result'].
RECURSIVE codeforces_loop(_)
codeforces_loop(entries) ==
    IF entries = <<>> THEN [list |-> <<>>]
    ELSE LET contest == Head(entries)
         IN  IF ~has(contest, "phase") THEN KeyError
             ELSE IF contest.phase # "BEFORE" THEN codeforces_loop(Tail(entries))
             ELSE IF \E k \in {"startTimeSeconds", "id", "name", "durationSeconds"} :
                        ~has(contest, k)
             THEN KeyError
             ELSE LET rest == codeforces_loop(Tail(entries))
                  IN  IF ~is_list(rest) THEN rest
                      ELSE [list |-> <<[id |-> "codeforces_" \o ToString(contest.id),
                                        platform |-> "Codeforces",
                                        title |-> contest.name,
                                        start_time |-> isoformat(contest.startTimeSeconds),
                                        duration_seconds |-> contest.durationSeconds,
                                        url |-> "https://codeforces.com/contest/"
                                                \o ToString(contest.id)]>>
                                    \o rest.list]

\* fetch_codeforces, lines 18..43, before the handler
codeforces_body(response) ==
    IF has(response, "error") THEN [exception |-> response.error]
    ELSE LET data == response.data
         IN  IF ~has(data, "status") THEN KeyError
             ELSE IF data.status # "OK" THEN [list |-> <<>>]
             ELSE IF ~has(data, "result") THEN KeyError
             ELSE codeforces_loop(data.result)

\* ContestFetcher.fetch_codeforces
fetch_codeforces(response) == guarded(codeforces_body(response))

\* Instead of is_future: "if start_time >= current_time".
is_future_inclusive(start_time, current_time) == start_time >= current_time

\* fetch_leetcode, line 80: "if start_time > current_time".
is_future(start_time, current_time) == start_time > current_time

\* fetch_leetcode, lines 73..88: the loop over allContests; current_time is
\* the clock read at line 71.
RECURSIVE leetcode_loop(_, _)
leetcode_loop(entries, current_time) ==
    IF entries = <<>> THEN [list |-> <<>>]
    ELSE LET contest == Head(entries)
         IN  IF ~has(contest, "startTime") THEN KeyError
             ELSE IF ~is_future(contest.startTime, current_time)
             THEN leetcode_loop(Tail(entries), current_time)
             ELSE IF \E k \in {"titleSlug", "title", "duration"} : ~has(contest, k)
             THEN KeyError
             ELSE LET rest == leetcode_loop(Tail(entries), current_time)
                  IN  IF ~is_list(rest) THEN rest
                      ELSE [list |-> <<[id |-> "leetcode_" \o contest.titleSlug,
                                        platform |-> "LeetCode",
                                        title |-> contest.title,
                                        start_time |-> isoformat(contest.startTime),
                                        duration_seconds |-> contest.duration,
                                        url |-> "https://leetcode.com/contest/"
                                                \o contest.titleSlug]>>
                                    \o rest.list]

\* fetch_leetcode, lines 63..90, before the handler:
\* data.get('data', {}).get('allContests', [])
leetcode_body(response, current_time) ==
    IF has(response, "error") THEN [exception |-> response.error]
    ELSE LET data  == response.data
             inner == IF has(data, "data") THEN data.data ELSE [x \in {} |-> x]
         IN  IF inner = None THEN AttributeError
             ELSE IF ~has(inner, "allContests") THEN [list |-> <<>>]
             ELSE leetcode_loop(inner.allContests, current_time)

\* ContestFetcher.fetch_leetcode
fetch_leetcode(response, current_time) == guarded(leetcode_body(response, current_time))

\* An entry of CodeChef's bucket that is no JSON object: contest[...] and
\* contest.get(...) both raise on it.
is_dict(contest) == ~has(contest, "nondict")

\* fetch_codechef, lines 117..137: what the inner try does with one entry
\* that is an object: the record, or the exception the inner handler gets.
\* The start is [local |-> t, offset |-> o], a time of day with its UTC
\* offset, or [text |-> ...] that fromisoformat rejects; astimezone(utc)
\* takes the offset off.
codechef_entry(contest) ==
    IF ~has(contest, "contest_start_date_iso") THEN KeyError
    ELSE IF ~has(contest.contest_start_date_iso, "local")
    THEN [exception |-> "ValueError"]
    ELSE IF \E k \in {"contest_name", "contest_duration", "contest_code"} :
               ~has(contest, k)
    THEN KeyError
    ELSE LET start_time     == contest.contest_start_date_iso
             start_time_utc == start_time.local - start_time.offset
         IN  [record |-> [id |-> "codechef_" \o contest.contest_code,
                          platform |-> "CodeChef",
                          title |-> contest.contest_name,
                          start_time |-> isoformat(start_time_utc),
                          duration_seconds |-> contest.contest_duration * 60,
                          url |-> "https://www.codechef.com/"
                                  \o contest.contest_code]]

\* fetch_codechef, lines 114..140: the loop. An entry that is no object
\* raises TypeError in the inner try and AttributeError at line 139, inside
\* the inner handler, which no longer catches it.
RECURSIVE codechef_loop(_)
codechef_loop(entries) ==
    IF entries = <<>> THEN [list |-> <<>>]
    ELSE LET contest == Head(entries)
         IN  IF ~is_dict(contest) THEN AttributeError
             ELSE LET rest == codechef_loop(Tail(entries))
                      done == codechef_entry(contest)
                  IN  IF ~is_list(rest) THEN rest
                      ELSE IF has(done, "record")
                      THEN [list |-> <<done.record>> \o rest.list]
                      ELSE rest

\* fetch_codechef, lines 99..143, before the outer handler
codechef_body(response) ==
    IF has(response, "error") THEN [exception |-> response.error]
    ELSE LET data == response.data
         IN  IF ~has(data, "status") THEN [list |-> <<>>]
             ELSE IF data.status # "success" THEN [list |-> <<>>]
             ELSE IF ~has(data, "future_contests") THEN [list |-> <<>>]
             ELSE codechef_loop(data.future_contests)

\* ContestFetcher.fetch_codechef
fetch_codechef(response) == guarded(codechef_body(response))

\* One call of an adapter: what came from upstream and what was returned.
AdapterCall(source, response, result) ==
    /\ UNCHANGED tasks
    /\ last' = [op |-> "adapter", source |-> source, response |-> response,
                now |-> now, result |-> result]
    /\ UNCHANGED <<now, store, calendar>>

\* Upstream answers: the transport or the decoder fails, the document lacks
\* its outer fields or reports a failure, or it lists at most two entries.
TransportErrors == {"ClientError", "ContentTypeError"}

CodeforcesEntries ==
    {[id |-> 1, name |-> "Round", phase |-> "BEFORE", startTimeSeconds |-> s,
      durationSeconds |-> 7200] : s \in {1, 3}}
    \cup {[id |-> 2, name |-> "Old Round", phase |-> "CODING",
           startTimeSeconds |-> 0, durationSeconds |-> 7200],
          [id |-> 3, name |-> "Round", phase |-> "BEFORE"],
          [id |-> 4, name |-> "Round"]}
CodeforcesResponses ==
    {[error |-> e] : e \in TransportErrors}
    \cup {[data |-> [status |-> "FAILED", comment |-> "limit exceeded"]],
          [data |-> [comment |-> "no status"]],
          [data |-> [status |-> "OK"]]}
    \cup {[data |-> [status |-> "OK", result |-> l]] :
             l \in ListsOf(CodeforcesEntries, 2)}

LeetCodeEntries ==
    {[title |-> "Weekly", titleSlug |-> "weekly-1", startTime |-> s,
      duration |-> 5400] : s \in {1, 3}}
    \cup {[title |-> "Weekly", titleSlug |-> "weekly-2", duration |-> 5400],
          [title |-> "Weekly", startTime |-> 3, duration |-> 5400]}
LeetCodeResponses ==
    {[error |-> e] : e \in TransportErrors}
    \cup {[data |-> [errors |-> "rate limited"]],
          [data |-> [errors |-> "rate limited", data |-> None]],
          [data |-> [data |-> [x \in {} |-> x]]]}
    \cup {[data |-> [data |-> [allContests |-> l]]] :
             l \in ListsOf(LeetCodeEntries, 2)}

CodeChefEntries ==
    {[contest_code |-> c, contest_name |-> "Starters",
      contest_start_date_iso |-> [local |-> s, offset |-> 1],
      contest_duration |-> 150] : c \in {"START1", "START2"}, s \in {2, 4}}
    \cup {[contest_name |-> "Starters",
           contest_start_date_iso |-> [local |-> 4, offset |-> 1],
           contest_duration |-> 150],
          [contest_code |-> "START3", contest_name |-> "Starters",
           contest_start_date_iso |-> [text |-> "to be announced"],
           contest_duration |-> 150],
          [nondict |-> "null"]}
CodeChefResponses ==
    {[error |-> e] : e \in TransportErrors}
    \cup {[data |-> [status |-> "error", message |-> "maintenance"]],
          [data |-> [message |-> "no status"]],
          [data |-> [status |-> "success"]]}
    \cup {[data |-> [status |-> "success", future_contests |-> l]] :
             l \in ListsOf(CodeChefEntries, 2)}

RunCodeforces ==
    \E response \in CodeforcesResponses :
        AdapterCall("fetch_codeforces", response, fetch_codeforces(response))
RunLeetCode ==
    \E response \in LeetCodeResponses :
        AdapterCall("fetch_leetcode", response, fetch_leetcode(response, now))
RunCodeChef ==
    \E response \in CodeChefResponses :
        AdapterCall("fetch_codechef", response, fetch_codechef(response))

SpecAdapters == Init /\ [][Tick \/ RunCodeforces \/ RunLeetCode \/ RunCodeChef]_vars

\* The entries an upstream document lists, where it lists any.
Listed(call) ==
    IF has(call.response, "error") THEN <<>>
    ELSE LET data == call.response.data
         IN  CASE call.source = "fetch_codeforces" ->
                      IF has(data, "result") THEN data.result ELSE <<>>
               [] call.source = "fetch_leetcode" ->
                      IF has(data, "data") /\ data.data # None
                         /\ has(data.data, "allContests")
                      THEN data.data.allContests ELSE <<>>
               [] call.source = "fetch_codechef" ->
                      IF has(data, "future_contests") THEN data.future_contests
                      ELSE <<>>

\* The upstream answered with something other than its success status.
NonSuccess(call) ==
    /\ ~has(call.response, "error")
    /\ CASE call.source = "fetch_codeforces" ->
                ~has(call.response.data, "status")
                \/ call.response.data.status # "OK"
         [] call.source = "fetch_codechef" ->
                ~has(call.response.data, "status")
                \/ call.response.data.status # "success"
         [] OTHER -> FALSE

\* The document lacks the part that holds the entries.
OuterShapeBroken(call) ==
    /\ ~has(call.response, "error")
    /\ CASE call.source = "fetch_codeforces" ->
                ~has(call.response.data, "result")
         [] call.source = "fetch_leetcode" ->
                has(call.response.data, "data") /\ call.response.data.data = None
         [] OTHER -> FALSE

\* An entry the adapter has to normalize that lacks what it needs: one
\* without the field the adapter selects by, or a selected one without a
\* field of the record.
Unusable(call, entry) ==
    CASE call.source = "fetch_codeforces" ->
             \/ ~has(entry, "phase")
             \/ /\ entry.phase = "BEFORE"
                /\ \E k \in {"id", "name", "startTimeSeconds", "durationSeconds"} :
                       ~has(entry, k)
      [] call.source = "fetch_leetcode" ->
             \/ ~has(entry, "startTime")
             \/ /\ entry.startTime > call.now
                /\ \E k \in {"title", "titleSlug", "duration"} : ~has(entry, k)
      [] call.source = "fetch_codechef" ->
             \/ ~is_dict(entry)
             \/ \E k \in {"contest_code", "contest_name", "contest_start_date_iso",
                          "contest_duration"} : ~has(entry, k)
             \/ ~has(entry.contest_start_date_iso, "local")

\* An unusable entry of CodeChef that is an object.
UnusableObject(call, entry) ==
    call.source = "fetch_codechef" /\ is_dict(entry) /\ Unusable(call, entry)

\* C12 as stated: an adapter returns a list whatever happens, and the empty
\* list whenever the transport or the decoder failed, the status is not the
\* success status, or the payload has not the expected shape.
C12_AnyFailureGivesEmpty ==
    last.op = "adapter"
    => /\ is_list(last.result)
       /\ (\/ has(last.response, "error")
           \/ NonSuccess(last)
           \/ OuterShapeBroken(last)
           \/ \E i \in 1..Len(Listed(last)) : Unusable(last, Listed(last)[i]))
          => last.result = [list |-> <<>>]

\* C12: an adapter returns a list whatever happens, and the empty list
\* whenever the transport or the decoder failed, the status is not the
\* success status, or the payload has not the expected shape, except that
\* an object of CodeChef's bucket with a missing or unreadable field does
\* not count as such a failure.
C12_NeverRaises ==
    last.op = "adapter"
    => /\ is_list(last.result)
       /\ (\/ has(last.response, "error")
           \/ NonSuccess(last)
           \/ OuterShapeBroken(last)
           \/ \E i \in 1..Len(Listed(last)) :
                  /\ Unusable(last, Listed(last)[i])
                  /\ ~UnusableObject(last, Listed(last)[i]))
          => last.result = [list |-> <<>>]

\* Codeforces listed a usable upcoming round and then an entry without a
\* phase, and the adapter returned the empty list.
C12_Witness ==
    /\ last.op = "adapter" /\ last.source = "fetch_codeforces"
    /\ Len(Listed(last)) = 2
    /\ ~Unusable(last, Listed(last)[1]) /\ Listed(last)[1].phase = "BEFORE"
    /\ ~has(Listed(last)[2], "phase")
    /\ last.result = [list |-> <<>>]

\* C13 as stated: every record an adapter returns starts strictly after the
\* clock of the fetch.
C13_AllReturnedAreFuture ==
    last.op = "adapter"
    => \A i \in 1..Len(last.result.list) :
           Instant(last.result.list[i].start_time) > last.now

\* C13: every record fetch_leetcode returns starts strictly after the clock
\* of the fetch; every record fetch_codeforces or fetch_codechef returns
\* starts when upstream says an entry of phase BEFORE, or of the future
\* bucket, starts, so it is in the future exactly when upstream's time is.
C13_FutureWhereCompared ==
    last.op = "adapter"
    => \A i \in 1..Len(last.result.list) :
           LET start == Instant(last.result.list[i].start_time)
           IN  CASE last.source = "fetch_leetcode" -> start > last.now
                 [] last.source = "fetch_codeforces" ->
                        \E j \in 1..Len(Listed(last)) :
                            /\ Listed(last)[j].phase = "BEFORE"
                            /\ Listed(last)[j].startTimeSeconds = start
                 [] last.source = "fetch_codechef" ->
                        \E j \in 1..Len(Listed(last)) :
                            /\ ~Unusable(last, Listed(last)[j])
                            /\ Listed(last)[j].contest_start_date_iso.local
                               - Listed(last)[j].contest_start_date_iso.offset = start

\* LeetCode listed a contest starting at the clock and one starting later,
\* and only the later one came back.
C13_Witness ==
    /\ last.op = "adapter" /\ last.source = "fetch_leetcode"
    /\ Len(Listed(last)) = 2
    /\ \A i \in 1..2 : ~Unusable(last, Listed(last)[i])
    /\ Listed(last)[1].startTime = last.now
    /\ Len(last.result.list) = 1
    /\ Instant(last.result.list[1].start_time) > last.now

\* What the inner try of fetch_codechef makes of the usable entries of a
\* bucket, in their order.
RECURSIVE NormalizedUsable(_, _)
NormalizedUsable(call, entries) ==
    IF entries = <<>> THEN <<>>
    ELSE (IF Unusable(call, Head(entries)) THEN <<>>
          ELSE <<codechef_entry(Head(entries)).record>>)
         \o NormalizedUsable(call, Tail(entries))

\* C14: when CodeChef answers with status success, fetch_codechef returns
\* exactly the normalized usable entries of the future bucket, in upstream
\* order, whatever unusable entries stand between them.
C14_EntriesIsolated ==
    (last.op = "adapter" /\ last.source = "fetch_codechef"
     /\ ~has(last.response, "error") /\ ~NonSuccess(last))
    => last.result = [list |-> NormalizedUsable(last, Listed(last))]

(* ------------------------- storage that fails ------------------------- *)

\* The handlers again, for the calls in which one access to the SQLite file
\* raises (sqlite3.connect or execute: the file is locked, unreadable, the
\* disk is full). "at" names the ContestDatabase method that raised. An
\* exception no handler catches leaves the tool function: outcome
\* "Exception".
StorageError == "sqlite3.OperationalError"

Escaped(op, at) ==
    [op |-> op, outcome |-> "Exception", exception |-> StorageError,
     storage_error |-> at]

\* tools.fetch_contests_tool, lines 44..51: no try around db.save_contests
\* and db.get_upcoming_contests. save_contests commits once, at line 75, so a
\* failure inside it leaves the table as it was.
FetchContestsStorageDown(results, at) ==
    /\ UNCHANGED tasks
    /\ LET all_contests == fetch_all(results)
       IN  /\ at \in {"save_contests", "get_upcoming_contests"}
           /\ contests' = IF at = "save_contests" THEN contests
                          ELSE save_contests(contests, all_contests, now)
           /\ last' = Escaped("fetch", at)
           /\ UNCHANGED <<now, calendar_events, preferences, calendar>>

\* tools.add_contest_to_calendar_tool: db.is_contest_in_calendar (line 92)
\* and db.get_contest_by_id (line 101) stand before the try, and
\* db.save_calendar_event (line 108) inside it, after create_contest_event
\* returned.
AddContestToCalendarStorageDown(contest_id, reminder_minutes, force, auth_ok, at) ==
    /\ UNCHANGED tasks
    /\ LET reminders      == reminders_for(reminder_minutes)
           already_exists == rows_for_contest(calendar_events, contest_id) # {}
           contest        == get_contest_by_id(contests, contest_id)
           new_id         == event_id_of(Len(cal_issued) + 1)
           escaped        == [op |-> "add", contest_id |-> contest_id,
                              force |-> force, outcome |-> "Exception",
                              event_id |-> "None", exception |-> StorageError,
                              storage_error |-> at]
       IN  /\ UNCHANGED <<now, store>>
           /\ CASE at = "is_contest_in_calendar" ->
                       /\ last' = escaped
                       /\ UNCHANGED calendar
                [] at = "get_contest_by_id" ->
                       /\ ~booking_guard(already_exists, force)
                       /\ last' = escaped
                       /\ UNCHANGED calendar
                [] at = "save_calendar_event" ->
                       /\ ~booking_guard(already_exists, force)
                       /\ contest # None
                       /\ service \/ auth_ok
                       /\ Len(cal_issued) < MaxEvents
                       /\ service' = TRUE
                       /\ cal_issued' = Append(cal_issued,
                              [contest_id |-> contest_id,
                               summary |-> <<contest.platform, contest.title>>,
                               start |-> contest.start_time,
                               reminders |-> reminders.list])
                       /\ cal_live' = cal_live \cup {new_id}
                       /\ last' = [op |-> "add", contest_id |-> contest_id,
                                   force |-> force,
                                   reminder_minutes |-> reminder_minutes,
                                   outcome |-> "Failure", event_id |-> "None",
                                   text |-> add_error_text(<<StorageError>>),
                                   created |-> new_id,
                                   storage_error |-> at]

\* tools.get_contest_resource, line 21: no try around db.get_contest_by_id
GetContestResourceStorageDown(contest_id) ==
    /\ UNCHANGED tasks
    /\ last' = Escaped("get", "get_contest_by_id")
    /\ UNCHANGED <<now, store, calendar>>

\* tools.set_reminder_preferences_tool, line 186: no try around
\* db.set_preference
SetReminderPreferencesStorageDown(reminder_minutes) ==
    /\ UNCHANGED tasks
    /\ last' = Escaped("set_preference", "set_preference")
    /\ UNCHANGED <<now, store, calendar>>

FetchStorageDown ==
    \E r1 \in AdapterResults(CodeforcesRecords({"Round"}, {3}), 1) \ {[list |-> <<>>]},
       at \in {"save_contests", "get_upcoming_contests"} :
        FetchContestsStorageDown(<<r1, Raised, Raised>>, at)

AddStorageDown ==
    \E contest_id \in ContestIds, reminder_minutes \in ReminderArgs,
       force \in BOOLEAN, auth_ok \in BOOLEAN,
       at \in {"is_contest_in_calendar", "get_contest_by_id", "save_calendar_event"} :
        AddContestToCalendarStorageDown(contest_id, reminder_minutes, force,
                                        auth_ok, at)

GetStorageDown ==
    \E contest_id \in ContestIds : GetContestResourceStorageDown(contest_id)

SetPreferenceStorageDown ==
    \E reminder_minutes \in {[list |-> <<60, 30, 10>>]} :
        SetReminderPreferencesStorageDown(reminder_minutes)

NextStorage ==
    \/ Next
    \/ FetchStorageDown \/ AddStorageDown \/ GetStorageDown
    \/ SetPreferenceStorageDown

SpecStorage == Init /\ [][NextStorage]_vars

\* C15: no operation lets an exception escape, and an operation in which an
\* access to storage failed answers with the storage-failure outcome and no
\* other.
C15_StorageFailureIsAnOutcome ==
    /\ last.op # "start" => last.outcome # "Exception"
    /\ has(last, "storage_error") => last.outcome = "StorageFailure"

(* --------------------------- the preferences -------------------------- *)

\* ContestDatabase.set_preference and get_preference called with any key
\* and value. A get keeps, for the statement of the round trip, the value of
\* the set just before it when that was for the same key.
DbSetPreference(key, value) ==
    /\ UNCHANGED tasks
    /\ preferences' = set_preference(preferences, key, value)
    /\ last' = [op |-> "db_set", outcome |-> "Success", key |-> key,
                value |-> value]
    /\ UNCHANGED <<now, contests, calendar_events, calendar>>

DbGetPreference(key, default) ==
    /\ UNCHANGED tasks
    /\ last' = [op |-> "db_get", outcome |-> "Success", key |-> key,
                default |-> default,
                stored |-> {r \in preferences : r.key = key} # {},
                after_set |-> IF last.op = "db_set" /\ last.key = key
                              THEN [value |-> last.value] ELSE None,
                result |-> get_preference(preferences, key, default)]
    /\ UNCHANGED <<now, store, calendar>>

PreferenceKeys == {"default_reminders", "timezone"}
PreferenceValues ==
    {[list |-> <<60, 30, 10>>], [int |-> 123], [bool |-> TRUE], None}
    \cup {[str |-> t] : t \in {"IST", "123", "true", "null"}}

SetAnyPreference ==
    \E key \in PreferenceKeys, value \in PreferenceValues :
        DbSetPreference(key, value)
GetAnyPreference ==
    \E key \in PreferenceKeys, default \in {None, [str |-> "UTC"]} :
        DbGetPreference(key, default)

SpecPreferences == Init /\ [][SetAnyPreference \/ GetAnyPreference]_vars

\* C16: get_preference on a key returns the value the set_preference just
\* before it stored under that key, whatever the value, and the default when
\* nothing is stored under the key.
C16_PreferenceRoundTrip ==
    last.op = "db_get"
    => /\ last.after_set # None => last.result = last.after_set.value
       /\ ~last.stored => last.result = last.default

(* ------------------- bookings whose event is gone --------------------- *)

\* C17: a successful delete of an event leaves the event's mapping row in
\* place, and a force=false add for a contest all of whose mapped events have
\* been deleted returns Conflict with the id of such an event and creates
\* nothing.
C17_StaleMappingConflicts ==
    [][/\ \A e \in EventIdArgs :
              (DeleteStep(e) /\ last'.outcome = "Success")
              => /\ e \notin cal_live'
                 /\ {r \in calendar_events' : r.event_id = e}
                    = {r \in calendar_events : r.event_id = e}
       /\ \A c \in ContestIds :
              (/\ AddStep(c, FALSE) /\ MappingRows(c) # {}
               /\ \A r \in MappingRows(c) : r.event_id \notin cal_live)
              => /\ last'.outcome = "Conflict"
                 /\ last'.event_id \in {r.event_id : r \in MappingRows(c)}
                 /\ last'.event_id \notin cal_live'
                 /\ UNCHANGED <<calendar_events, cal_issued, cal_live>>]_vars

\* a force=false add answered Conflict with the id of the contest's one
\* event, which was created, mapped and then deleted
C17_Witness ==
    /\ last.op = "add" /\ ~last.force /\ last.outcome = "Conflict"
    /\ \E n \in 1..Len(cal_issued) :
           /\ last.event_id = event_id_of(n)
           /\ cal_issued[n].contest_id = last.contest_id
    /\ last.event_id \notin cal_live
    /\ {r.event_id : r \in MappingRows(last.contest_id)} = {last.event_id}

(* ------------------- the two bounds of the window --------------------- *)

\* C18: in one call of get_upcoming_contests the upper bound of the window
\* is the lower bound plus the horizon: both come from one reading of the
\* clock.
C18_BoundsFromOneReading ==
    last.op = "fetch"
    => LET current_time == isoformat(last.now2)
           cutoff_time  == isoformat(last.now1 + timedelta_days(last.days_ahead))
       IN  Instant(cutoff_time)
           = Instant(current_time) + timedelta_days(last.days_ahead)

(* ------------------------- rows are never lost ------------------------ *)

\* C19: no step removes a contest id from the contest table, no step removes
\* or changes a mapping row, and a mapping row appears only in an add that
\* returns Success after the calendar created the event the row names.
C19_RowsOnlyAdded ==
    [][/\ {r.id : r \in contests} \subseteq {r.id : r \in contests'}
       /\ calendar_events \subseteq calendar_events'
       /\ \A r \in calendar_events' \ calendar_events :
              /\ last'.op = "add" /\ last'.outcome = "Success"
              /\ r.contest_id = last'.contest_id
              /\ r.event_id = last'.event_id
              /\ LastCall(last').call = "insert" /\ LastCall(last').error = ""
              /\ Len(cal_issued') = Len(cal_issued) + 1
              /\ r.event_id = event_id_of(Len(cal_issued'))]_vars

\* a pass replaced the stored contests while a mapping row of a deleted
\* event and a second, forced row of the same contest were in the table
C19_Witness ==
    /\ last.op = "fetch" /\ last.replaced # {}
    /\ \E r \in calendar_events : r.event_id \notin cal_live
    /\ \E r, q \in calendar_events :
           r.contest_id = q.contest_id /\ r.event_id # q.event_id

(* --------------------- a process that dies midway --------------------- *)

\* The server process is killed inside a handler and started again: what
\* was committed to the SQLite file and what the calendar created stay, the
\* authenticated service object is gone, and the caller got no reply.
Crashed(during, contest_id, created, written) ==
    [op |-> "crash", outcome |-> "Crash", during |-> during,
     contest_id |-> contest_id, created |-> created, written |-> written]

\* Instead of AddContestToCalendarCrash: the mapping row is committed
\* before the event is created, so the crash finds it written.
AddContestToCalendarCrash_mapping_first(contest_id, reminder_minutes, force, auth_ok) ==
    /\ UNCHANGED tasks
    /\ LET reminders      == reminders_for(reminder_minutes)
           already_exists == rows_for_contest(calendar_events, contest_id) # {}
           contest        == get_contest_by_id(contests, contest_id)
           new_id         == event_id_of(Len(cal_issued) + 1)
       IN  /\ ~booking_guard(already_exists, force)
           /\ contest # None
           /\ service \/ auth_ok
           /\ Len(cal_issued) < MaxEvents
           /\ cal_issued' = Append(cal_issued,
                  [contest_id |-> contest_id,
                   summary |-> <<contest.platform, contest.title>>,
                   start |-> contest.start_time,
                   reminders |-> reminders.list])
           /\ cal_live' = cal_live \cup {new_id}
           /\ calendar_events' = save_calendar_event(calendar_events, new_id,
                                                     contest_id, now)
           /\ service' = FALSE
           /\ last' = Crashed("add", contest_id, new_id, {})
           /\ UNCHANGED <<now, contests, preferences>>

\* tools.add_contest_to_calendar_tool killed between line 107, where
\* create_contest_event returned, and line 108, db.save_calendar_event.
AddContestToCalendarCrash(contest_id, reminder_minutes, force, auth_ok) ==
    /\ UNCHANGED tasks
    /\ LET reminders      == reminders_for(reminder_minutes)
           already_exists == rows_for_contest(calendar_events, contest_id) # {}
           contest        == get_contest_by_id(contests, contest_id)
           new_id         == event_id_of(Len(cal_issued) + 1)
       IN  /\ ~booking_guard(already_exists, force)
           /\ contest # None
           /\ service \/ auth_ok
           /\ Len(cal_issued) < MaxEvents
           /\ cal_issued' = Append(cal_issued,
                  [contest_id |-> contest_id,
                   summary |-> <<contest.platform, contest.title>>,
                   start |-> contest.start_time,
                   reminders |-> reminders.list])
           /\ cal_live' = cal_live \cup {new_id}
           /\ service' = FALSE
           /\ last' = Crashed("add", contest_id, new_id, {})
           /\ UNCHANGED <<now, store>>

\* tools.fetch_contests_tool killed after line 45, where db.save_contests
\* had committed, and before its reply.
FetchContestsCrash(results) ==
    /\ UNCHANGED tasks
    /\ LET all_contests == fetch_all(results)
       IN  /\ contests' = save_contests(contests, all_contests, now)
           /\ service' = FALSE
           /\ last' = Crashed("fetch", "None", "None",
                              {all_contests[i].id : i \in 1..Len(all_contests)})
           /\ UNCHANGED <<now, calendar_events, preferences, cal_issued, cal_live>>

AddCrash ==
    \E contest_id \in ContestIds, reminder_minutes \in ReminderArgs,
       force \in BOOLEAN, auth_ok \in BOOLEAN :
        AddContestToCalendarCrash(contest_id, reminder_minutes, force, auth_ok)

FetchCrash ==
    \E r1 \in AdapterResults(CodeforcesRecords({"Round"}, {3}), 1) \ {[list |-> <<>>]},
       r2 \in AdapterResults(LeetCodeRecords({"Round"}, {3}), 1) \ {[list |-> <<>>]} :
        FetchContestsCrash(<<r1, r2, Raised>>)

\* The handlers that read or write what a crash leaves behind, and the two
\* crashes.
NextCrash == Fetch \/ Add(BOOLEAN) \/ Get \/ AddCrash \/ FetchCrash

SpecCrash == Init /\ [][NextCrash]_vars

\* An add in which the calendar was asked to create and did.
Created(reply) ==
    /\ reply.calls # <<>>
    /\ LastCall(reply).call = "insert" /\ LastCall(reply).error = ""

\* C20: a crash between the create and the recording of the mapping leaves
\* an event of the contest on the calendar and no mapping row for it, and a
\* force=false add for a contest that has such events and no mapping row is
\* not answered Conflict: when the calendar creates, it returns Success and
\* the contest has one more event. A crash after the contests were written
\* leaves them written: get then finds such a contest and an add for it is
\* not answered NotFound.
C20_CrashWindows ==
    [][/\ \A c \in ContestIds :
              (AddCrash /\ last'.contest_id = c)
              => /\ last'.created \in cal_live'
                 /\ cal_issued'[Len(cal_issued')].contest_id = c
                 /\ ~\E r \in calendar_events' : r.event_id = last'.created
                 /\ calendar_events' = calendar_events
       /\ \A c \in ContestIds :
              (/\ AddStep(c, FALSE)
               /\ EventsCreatedFor(c) # {} /\ MappingRows(c) = {})
              => /\ last'.outcome \in {"Success", "Failure"}
                 /\ Created(last')
                    => /\ last'.outcome = "Success"
                       /\ Cardinality({n \in 1..Len(cal_issued') :
                                          cal_issued'[n].contest_id = c})
                          = Cardinality(EventsCreatedFor(c)) + 1
       /\ FetchCrash => last'.written \subseteq {r.id : r \in contests'}
       /\ \A c \in ContestIds :
              (/\ last.op = "crash" /\ last.during = "fetch"
               /\ c \in last.written)
              => /\ GetContestResource(c)
                    => last'.outcome = "Found" /\ last'.contest.id = c
                 /\ \A f \in BOOLEAN :
                        AddStep(c, f) => last'.outcome # "NotFound"]_vars

\* a force=false add returned Success for a contest that already had an
\* event on the calendar: the contest has two events and one mapping row
C20_Witness ==
    /\ last.op = "add" /\ ~last.force /\ last.outcome = "Success"
    /\ Cardinality(EventsCreatedFor(last.contest_id)) = 2
    /\ Cardinality(MappingRows(last.contest_id)) = 1
    /\ \A n \in EventsCreatedFor(last.contest_id) : event_id_of(n) \in cal_live

(* ----------------------- passes over one upstream --------------------- *)

\* tools.fetch_contests_tool with ContestFetcher.fetch_all inlined: the
\* three adapters run on what the upstreams answer, their lists are stored
\* and the window is read. A pass keeps, for the statement of convergence,
\* whether the upstreams answer as they did in the pass just before it, and
\* what that pass left.
FetchContestsFromUpstream(responses) ==
    /\ UNCHANGED tasks
    /\ LET results      == <<fetch_codeforces(responses[1]),
                             fetch_leetcode(responses[2], now),
                             fetch_codechef(responses[3])>>
           all_contests == fetch_all(results)
           saved        == save_contests(contests, all_contests, now)
           returned     == get_upcoming_contests(saved, NoPlatform, MaxDays, now, now)
           ids          == {all_contests[i].id : i \in 1..Len(all_contests)}
       IN  /\ contests' = saved
           /\ last' = [op |-> "pass", responses |-> responses, now |-> now,
                       all_contests |-> all_contests, ids |-> ids,
                       outcome |-> IF returned = <<>> THEN "Empty" ELSE "Found",
                       returned |-> returned,
                       repeats |-> IF last.op = "pass" /\ last.responses = responses
                                   THEN [ids |-> last.ids, now |-> last.now,
                                         rows |-> Cardinality(contests)]
                                   ELSE None]
           /\ UNCHANGED <<now, calendar_events, preferences, calendar>>

\* Upstreams that list contests under the same native id on every platform,
\* or fail.
UpstreamCodeforces ==
    {[error |-> "ClientError"]}
    \cup {[data |-> [status |-> "OK", result |-> l]] :
             l \in ListsOf({[id |-> n, name |-> "Round", phase |-> "BEFORE",
                             startTimeSeconds |-> 3, durationSeconds |-> 7200] :
                                n \in {1, 2}}, 1)}
UpstreamLeetCode ==
    {[data |-> [data |-> [allContests |-> l]]] :
        l \in ListsOf({[title |-> "Weekly", titleSlug |-> "1", startTime |-> 2,
                        duration |-> 5400]}, 1)}
UpstreamCodeChef ==
    {[data |-> [status |-> "success", future_contests |-> l]] :
        l \in ListsOf({[contest_code |-> "1", contest_name |-> "Starters",
                        contest_start_date_iso |-> [local |-> 4, offset |-> 1],
                        contest_duration |-> 150]}, 1)}

FetchUpstream ==
    \E r1 \in UpstreamCodeforces, r2 \in UpstreamLeetCode, r3 \in UpstreamCodeChef :
        FetchContestsFromUpstream(<<r1, r2, r3>>)

SpecUpstream == Init /\ [][Tick \/ FetchUpstream]_vars

\* C21: after a pass every contest of the pass has exactly one row, contests
\* of different platforms have different ids, and a pass over what the
\* upstreams answered in the pass before derives no id that pass did not
\* derive (the same ids when the clock stands) and leaves as many rows as
\* that pass left.
C21_PassesConverge ==
    last.op = "pass"
    => /\ \A id \in last.ids : Cardinality({r \in contests : r.id = id}) = 1
       /\ \A i, j \in 1..Len(last.all_contests) :
              last.all_contests[i].platform # last.all_contests[j].platform
              => last.all_contests[i].id # last.all_contests[j].id
       /\ last.repeats # None
          => /\ last.ids \subseteq last.repeats.ids
             /\ last.now = last.repeats.now => last.ids = last.repeats.ids
             /\ Cardinality(contests) = last.repeats.rows

\* a later pass over the same answers, three platforms listing a contest
\* under the native id 1, left the four rows of the pass before
C21_Witness ==
    /\ last.op = "pass" /\ last.repeats # None
    /\ last.now > last.repeats.now
    /\ {"codeforces_1", "leetcode_1", "codechef_1"} \subseteq last.repeats.ids
    /\ Cardinality(last.ids) >= 3
    /\ Cardinality(contests) = 4

(* ------------------ mapping rows and their contests ------------------- *)

\* C22: every mapping row names a contest that has a row in the contest
\* table, and an add answered Conflict is for a contest that has one.
C22_MappedContestsStored ==
    /\ \A r \in calendar_events : \E c \in contests : c.id = r.contest_id
    /\ (last.op = "add" /\ last.outcome = "Conflict")
       => \E c \in contests : c.id = last.contest_id

\* an add was answered Conflict while two contests were booked
C22_Witness ==
    /\ last.op = "add" /\ last.outcome = "Conflict"
    /\ \E r, q \in calendar_events : r.contest_id # q.contest_id
    /\ \A r \in calendar_events : get_contest_by_id(contests, r.contest_id) # None

(* --------------------------- the event loop --------------------------- *)

\* server.add_contest_to_calendar is a coroutine the server starts as a task
\* of its one event loop for every call it receives; a task runs until it
\* awaits something that is not ready. A call that was received and has not
\* run yet is "ready".
SubmitAdd(contest_id, force) ==
    /\ Len(tasks) < MaxTasks
    /\ tasks' = Append(tasks, [contest_id |-> contest_id, force |-> force,
                               pc |-> "ready", reply |-> None,
                               ran_with |-> {}, booked |-> FALSE])
    /\ UNCHANGED <<now, store, calendar, last>>

\* Instead of RunAddTask: the create is awaited, so the task is suspended
\* after the mapping check and resumes with the create and the write.
RunAddTask_suspending(i, auth_ok, insert_ok, upstream) ==
    LET task   == tasks[i]
        booked == rows_for_contest(calendar_events, task.contest_id) # {}
        others == {j \in 1..Len(tasks) : j # i /\ tasks[j].pc = "ready"}
    IN  IF task.pc = "ready" /\ ~booking_guard(booked, task.force)
        THEN /\ tasks' = [tasks EXCEPT ![i] =
                             [@ EXCEPT !.pc = "checked", !.ran_with = others,
                                       !.booked = booked]]
             /\ UNCHANGED <<now, store, calendar, last>>
        ELSE /\ task.pc \in {"ready", "checked"}
             /\ add_contest_to_calendar_tool(task.contest_id, None,
                    task.force \/ task.pc = "checked", auth_ok, insert_ok, upstream)
             /\ tasks' = [tasks EXCEPT ![i] =
                             [@ EXCEPT !.pc = "done", !.reply = last',
                                       !.ran_with = IF task.pc = "ready" THEN others
                                                    ELSE @,
                                       !.booked = IF task.pc = "ready" THEN booked
                                                  ELSE @]]

\* The loop runs a ready task: tools.add_contest_to_calendar_tool has no
\* await between its first line and its return, so the task runs from the
\* mapping check to the reply without another task running. The task keeps
\* which other calls were ready while it ran and whether it found the
\* contest booked.
RunAddTask(i, auth_ok, insert_ok, upstream) ==
    LET task   == tasks[i]
        booked == rows_for_contest(calendar_events, task.contest_id) # {}
        others == {j \in 1..Len(tasks) : j # i /\ tasks[j].pc = "ready"}
    IN  /\ task.pc = "ready"
        /\ add_contest_to_calendar_tool(task.contest_id, None, task.force,
                                        auth_ok, insert_ok, upstream)
        /\ tasks' = [tasks EXCEPT ![i] =
                        [@ EXCEPT !.pc = "done", !.reply = last',
                                  !.ran_with = others, !.booked = booked]]

Submit ==
    \E contest_id \in {"codeforces_1"}, force \in BOOLEAN :
        SubmitAdd(contest_id, force)

RunTask ==
    \E i \in 1..Len(tasks), auth_ok \in BOOLEAN, insert_ok \in BOOLEAN,
       upstream \in UpstreamErrors :
        RunAddTask(i, auth_ok, insert_ok, upstream)

\* A pass that stores the contest the calls are for.
FetchOne ==
    \E r1 \in {[list |-> <<c>>] : c \in CodeforcesRecords({"Round"}, {3})} :
        FetchContests("", MaxDays, <<r1, Raised, Raised>>, 0)

SpecLoop == Init /\ [][FetchOne \/ Submit \/ RunTask]_vars

\* Two force=false calls for one contest, the second ready while the first
\* ran and found the contest unbooked.
InFlightTogether(i, j) ==
    /\ i # j
    /\ tasks[i].pc = "done" /\ tasks[j].pc = "done"
    /\ tasks[i].contest_id = tasks[j].contest_id
    /\ ~tasks[i].force /\ ~tasks[j].force
    /\ j \in tasks[i].ran_with /\ ~tasks[i].booked

\* C23: of two force=false calls for the same unbooked contest that are in
\* flight together, at most one passes the mapping check and creates an
\* event: when the one that runs first creates its event, the other is
\* answered Conflict with the id of a mapped event of the contest, that
\* event's id unless a forced call booked the contest again, and asks the
\* calendar for nothing.
C23_NoDoubleBooking ==
    \A i, j \in 1..Len(tasks) :
        InFlightTogether(i, j)
        => /\ ~(tasks[i].reply.outcome = "Success"
                /\ tasks[j].reply.outcome = "Success")
           /\ tasks[i].reply.outcome = "Success"
              => /\ tasks[j].reply.outcome = "Conflict"
                 /\ tasks[j].reply.calls = <<>>
                 /\ tasks[j].reply.event_id
                    \in {r.event_id : r \in MappingRows(tasks[i].contest_id)}
                 /\ Cardinality(MappingRows(tasks[i].contest_id)) = 1
                    => /\ tasks[j].reply.event_id = tasks[i].reply.event_id
                       /\ Cardinality(EventsCreatedFor(tasks[i].contest_id)) = 1

\* the call received second ran first and created the event, the call
\* received first was then answered Conflict
C23_Witness ==
    /\ Len(tasks) = 2 /\ InFlightTogether(2, 1)
    /\ tasks[2].reply.outcome = "Success"
    /\ tasks[1].reply.outcome = "Conflict"
    /\ tasks[1].booked

(* ------------------- one bad entry and its batch ---------------------- *)

\* C24: fetch_codeforces and fetch_leetcode return the empty list as soon
\* as one entry they have to normalize is unusable, whatever usable entries
\* the batch holds; fetch_codechef, given objects only, still returns the
\* usable ones.
C24_AllOrNothingPerSource ==
    (last.op = "adapter" /\ ~has(last.response, "error") /\ ~NonSuccess(last))
    => LET unusable == {i \in 1..Len(Listed(last)) : Unusable(last, Listed(last)[i])}
       IN  /\ (last.source \in {"fetch_codeforces", "fetch_leetcode"}
               /\ unusable # {})
              => last.result = [list |-> <<>>]
           /\ (last.source = "fetch_codechef"
               /\ \A i \in unusable : is_dict(Listed(last)[i]))
              => last.result = [list |-> NormalizedUsable(last, Listed(last))]

\* LeetCode listed a contest still to start and then an entry without
\* startTime, and the adapter returned the empty list
C24_Witness ==
    /\ last.op = "adapter" /\ last.source = "fetch_leetcode"
    /\ Len(Listed(last)) = 2
    /\ ~Unusable(last, Listed(last)[1]) /\ Listed(last)[1].startTime > last.now
    /\ ~has(Listed(last)[2], "startTime")
    /\ last.result = [list |-> <<>>]

(* ------------------------ a batch that fails -------------------------- *)

\* ContestDatabase.save_contests, lines 60..73: the executes of one
\* connection, in the order of the list. fail_at is the execute at which
\* SQLite raises, 0 when it raises at none; a record without one of the
\* fields read with contest[...] raises KeyError, a record without url is
\* written with '' (line 70). Gives the rows as the connection sees them
\* when the loop is left, and the exception that left it, if any.
RECURSIVE execute_inserts(_, _, _, _, _)
execute_inserts(working, contests_list, stamp, k, fail_at) ==
    IF contests_list = <<>> THEN [rows |-> working]
    ELSE LET contest == Head(contests_list)
         IN  IF \E f \in {"id", "platform", "title", "start_time", "duration_seconds"} :
                    f \notin DOMAIN contest
             THEN [rows |-> working, exception |-> "KeyError"]
             ELSE IF k = fail_at
             THEN [rows |-> working, exception |-> "sqlite3.OperationalError"]
             ELSE execute_inserts(
                      insert_or_replace_contest(working,
                          [id |-> contest.id, platform |-> contest.platform,
                           title |-> contest.title,
                           start_time |-> contest.start_time,
                           duration_seconds |-> contest.duration_seconds,
                           url |-> IF "url" \in DOMAIN contest THEN contest.url
                                   ELSE ""],
                          stamp),
                      Tail(contests_list), stamp, k + 1, fail_at)

\* Instead of connection_dropped: every execute is committed as it is made.
connection_autocommitting(committed, working) == working

\* The connection of save_contests goes away without conn.commit() (line 75)
\* when an exception leaves the loop: SQLite rolls its transaction back, the
\* file holds what was committed before the call.
connection_dropped(committed, working) == committed

\* ContestDatabase.save_contests called with any list: the table it leaves
\* and the exception it raises, if any.
save_contests_outcome(table, contests_list, stamp, fail_at) ==
    LET done == execute_inserts(table, contests_list, stamp, 1, fail_at)
    IN  IF "exception" \in DOMAIN done
        THEN [table |-> connection_dropped(table, done.rows),
              exception |-> done.exception]
        ELSE [table |-> done.rows]

\* The call keeps, for the statement of what a failed batch leaves, the
\* table it found.
DbSaveContests(contests_list, fail_at) ==
    LET done == save_contests_outcome(contests, contests_list, now, fail_at)
    IN  /\ contests' = done.table
        /\ last' = [op |-> "db_save", contests_list |-> contests_list,
                    fail_at |-> fail_at, before |-> contests,
                    outcome |-> IF "exception" \in DOMAIN done THEN "Exception"
                                ELSE "Success",
                    exception |-> IF "exception" \in DOMAIN done
                                  THEN done.exception ELSE "None"]
        /\ UNCHANGED <<now, calendar_events, preferences, calendar, tasks>>

\* Batches of records as the adapters build them, retitled or not, of
\* records without url and of records without title.
BatchRecords ==
    CodeforcesRecords({"Round", "Round (rated)"}, {3})
    \cup LeetCodeRecords({"Weekly"}, {3})
    \cup {[id |-> "codechef_START1", platform |-> "CodeChef", title |-> "Starters",
           start_time |-> isoformat(3), duration_seconds |-> 9000],
          [id |-> "codechef_START2", platform |-> "CodeChef",
           start_time |-> isoformat(3), duration_seconds |-> 9000,
           url |-> "https://www.codechef.com/START2"]}

SaveBatch ==
    \E contests_list \in ListsOf(BatchRecords, MaxBatch), fail_at \in 0..MaxBatch :
        DbSaveContests(contests_list, fail_at)

SpecBatch == Init /\ [][SaveBatch]_vars

\* The batch holds a record save_contests cannot write, or SQLite fails at
\* one of its executes.
BatchFails(contests_list, fail_at) ==
    \/ \E i \in 1..Len(contests_list) :
           \E f \in {"id", "platform", "title", "start_time", "duration_seconds"} :
               f \notin DOMAIN contests_list[i]
    \/ fail_at \in 1..Len(contests_list)

\* C25: a call of save_contests in which the write of one record fails
\* raises and leaves the contest table as it was before the call, whatever
\* records came before the failing one; a call in which none fails leaves a
\* row for every record of the batch.
C25_BatchAllOrNothing ==
    last.op = "db_save"
    => IF BatchFails(last.contests_list, last.fail_at)
       THEN last.outcome = "Exception" /\ contests = last.before
       ELSE /\ last.outcome = "Success"
            /\ \A i \in 1..Len(last.contests_list) :
                   \E r \in contests : r.id = last.contests_list[i].id

\* a batch whose second record has no title raised, and its first record,
\* a retitled contest, left the stored row with the old title
C25_Witness ==
    /\ last.op = "db_save" /\ last.outcome = "Exception"
    /\ last.exception = "KeyError"
    /\ Len(last.contests_list) = 2
    /\ \E r \in contests :
           /\ r.id = last.contests_list[1].id
           /\ r.title # last.contests_list[1].title

====
